---- MODULE Spec2Model ----
(***************************************************************************)
(* Model of the StatSor service supervisor (start_services.py) and of the  *)
(* HTTP surface of the chatbot gateway it launches (backend/chatbot/app.py) *)
(*                                                                         *)
(* Time is counted in whole seconds.  The supervisor is a single thread;   *)
(* the children and the operator (Ctrl+C) are the environment.             *)
(***************************************************************************)
EXTENDS Integers, Sequences, FiniteSets, TLC

VARIABLES
    pc,          \* position of main(): see PCs
    i,           \* loop index of the loop main() is in (1-based)
    processes,   \* the list `processes`: registry indices, in append order
    child,       \* per registry entry: the OS process the supervisor spawned
    failedName,  \* the service named by "Failed to start ... Aborting.", 0 if none
    all_ready,   \* the local all_ready
    elapsed,     \* time.time() - start_time of the running check_service call
    probeLog,    \* check_service calls that returned: [svc, ok, at]
    lastAttempt, \* the last requests.get of check_service: [svc, outcome, up, alive, slept]
    termLog,     \* registry indices in the order terminate() was called
    foreign5000, \* some process outside this repository listens on port 5000
    interrupted, \* a KeyboardInterrupt was delivered
    outcome,     \* how main() ended: see Outcomes
    exitCode,    \* exit status of the supervisor, -1 while it runs
    chatLog      \* POST /chat requests the gateway answered: see ChatRequest

vars == <<pc, i, processes, child, failedName, all_ready, elapsed, probeLog,
          lastAttempt, termLog, foreign5000, interrupted, outcome, exitCode,
          chatLog>>

----------------------------------------------------------------------------
(* Program constants *)

Timeout == 30
PerAttemptTimeout == 5
SleepInterval == 2
AppPort == 5001
ChatbotHealthPort == 5000
BackendHealthPort == 8080
SigIntExit == 130

Chatbot == 1
Backend == 2

services_to_start ==
    << [name |-> "Chatbot", port |-> ChatbotHealthPort, path |-> "/health"],
       [name |-> "Backend", port |-> BackendHealthPort, path |-> "/health"] >>

N == Len(services_to_start)
Svc == 1..N

(* The routes app.py registers: one POST route. *)
AppRoutes == { [path |-> "/chat", method |-> "POST"] }

PCs == {"launch", "launch_rollback", "check", "report", "idle",
        "shutdown", "health_rollback", "done", "crashed"}
Outcomes == {"running", "launch_failed", "health_failed", "stopped", "interrupt"}
AttemptOutcomes == {"ok200", "non200", "refused", "timeout"}

----------------------------------------------------------------------------
(* Pure helpers *)

Range(s) == { s[k] : k \in 1..Len(s) }

(* 0 when x does not occur in s *)
IndexOf(s, x) == IF x \in Range(s) THEN CHOOSE k \in 1..Len(s) : s[k] = x ELSE 0

(* What the Flask app of app.py answers to a request it receives on `port`. *)
(* It listens on AppPort only; an unknown path is 404, a known path with    *)
(* another method is 405.                                                   *)
GatewayRespond(port, path, method) ==
    IF port # AppPort THEN "refused"
    ELSE IF [path |-> path, method |-> method] \in AppRoutes THEN "ok200"
    ELSE "non200"

----------------------------------------------------------------------------
(* The HTTP environment of check_service *)

NoChild == [state |-> "none", ignoresTerm |-> FALSE, termSent |-> FALSE]

(* The outcomes requests.get(url, timeout=5) can have for registry entry s. *)
(* The chatbot's URL is answered by app.py when app.py listens on the       *)
(* URL's port, else by whatever else listens there, else refused.  The      *)
(* backend is `npm start`, an opaque process: while it runs it may answer   *)
(* anything or not listen yet; stuck on a full output pipe it answers       *)
(* nothing; once it has exited the port is closed.                          *)
HttpGet(s) ==
    LET u == services_to_start[s] IN
    IF s = Chatbot
    THEN IF child[Chatbot].state = "running" /\ u.port = AppPort
         THEN { GatewayRespond(u.port, u.path, "GET") }
         ELSE IF foreign5000 THEN {"ok200", "non200", "timeout"}
         ELSE {"refused"}
    ELSE IF child[s].state = "running" THEN AttemptOutcomes
         ELSE IF child[s].state = "blocked" THEN {"refused", "timeout"}
         ELSE {"refused"}

(* Seconds a requests.get with the given outcome can take. *)
Durations(o) ==
    IF o = "timeout" THEN {PerAttemptTimeout} ELSE 0..PerAttemptTimeout

----------------------------------------------------------------------------
Init ==
    /\ pc = "launch"
    /\ i = 1
    /\ processes = << >>
    /\ child = [s \in Svc |-> NoChild]
    /\ failedName = 0
    /\ all_ready = TRUE
    /\ elapsed = 0
    /\ probeLog = << >>
    /\ lastAttempt = [svc |-> 0, outcome |-> "none", up |-> FALSE, alive |-> FALSE,
                     slept |-> 0]
    /\ termLog = << >>
    /\ foreign5000 \in BOOLEAN
    /\ interrupted = FALSE
    /\ outcome = "running"
    /\ exitCode = -1
    /\ chatLog = << >>

----------------------------------------------------------------------------
(* LaunchOk with the probing begun right after a launch, the remaining      *)
(* entries not yet started.                                                 *)
LaunchOk_ProbesEarly ==
    /\ pc = "launch"
    /\ i <= N
    /\ \E ign \in BOOLEAN :
         child' = [child EXCEPT ![i] =
                      [state |-> "running", ignoresTerm |-> ign, termSent |-> FALSE]]
    /\ processes' = Append(processes, i)
    /\ pc' = "check" /\ i' = 1 /\ elapsed' = 0
    /\ UNCHANGED <<failedName, all_ready, probeLog, lastAttempt, termLog,
                   foreign5000, interrupted, outcome, exitCode, chatLog>>

(* start_service succeeded: Popen returned a handle, main appends it.       *)
LaunchOk ==
    /\ pc = "launch"
    /\ i <= N
    /\ \E ign \in BOOLEAN :
         child' = [child EXCEPT ![i] =
                      [state |-> "running", ignoresTerm |-> ign, termSent |-> FALSE]]
    /\ processes' = Append(processes, i)
    /\ IF i = N
       THEN pc' = "check" /\ i' = 1 /\ elapsed' = 0
       ELSE pc' = "launch" /\ i' = i + 1 /\ elapsed' = elapsed
    /\ UNCHANGED <<failedName, all_ready, probeLog, lastAttempt, termLog,
                   foreign5000, interrupted, outcome, exitCode, chatLog>>

(* LaunchFail without the rollback: the failure is reported and main        *)
(* returns, the loop of lines 60-61 left out.                               *)
LaunchFail_NoRollback ==
    /\ pc = "launch"
    /\ i <= N
    /\ failedName' = i
    /\ pc' = "done"
    /\ outcome' = "launch_failed"
    /\ exitCode' = 0
    /\ UNCHANGED <<i, processes, child, all_ready, elapsed, probeLog, lastAttempt,
                   termLog, foreign5000, interrupted, chatLog>>

(* start_service caught an exception of Popen and returned None: main goes  *)
(* to the loop over `processes` of lines 60-61.                             *)
LaunchFail ==
    /\ pc = "launch"
    /\ i <= N
    /\ failedName' = i
    /\ pc' = "launch_rollback"
    /\ i' = 1
    /\ UNCHANGED <<processes, child, all_ready, elapsed, probeLog, lastAttempt,
                   termLog, foreign5000, interrupted, outcome, exitCode,
                   chatLog>>

(* The index of `processes` the k-th iteration of `for p_info in processes` *)
(* visits.                                                                  *)
TerminateOrder(k) == k

(* SendTerm where a request to a process already asked to stop escalates   *)
(* to a kill.                                                               *)
SendTerm_Escalates(c) ==
    IF c.state = "exited" THEN c
    ELSE IF c.termSent THEN [c EXCEPT !.state = "exited"]
    ELSE [c EXCEPT !.termSent = TRUE]

(* What Popen.terminate() does to the process behind the handle: SIGTERM    *)
(* to a child that has not exited, nothing (and no error) for one that has. *)
SendTerm(c) ==
    IF c.state = "exited" THEN c ELSE [c EXCEPT !.termSent = TRUE]

(* p_info["process"].terminate() *)
Terminate(s) ==
    /\ termLog' = Append(termLog, s)
    /\ child' = [child EXCEPT ![s] = SendTerm(child[s])]

(* One iteration of a `for p_info in processes: terminate()` loop.          *)
TerminateStep(at) ==
    /\ pc = at
    /\ i <= Len(processes)
    /\ Terminate(processes[TerminateOrder(i)])
    /\ i' = i + 1
    /\ UNCHANGED <<pc, processes, failedName, all_ready, elapsed, probeLog,
                   lastAttempt, foreign5000, interrupted, outcome, exitCode,
                   chatLog>>

LaunchRollbackStep == TerminateStep("launch_rollback")

(* LaunchAbort that, instead of returning, goes back to launch the entry    *)
(* that failed (a retry).                                                   *)
LaunchAbort_Retries ==
    /\ pc = "launch_rollback"
    /\ i > Len(processes)
    /\ pc' = "launch"
    /\ i' = failedName
    /\ UNCHANGED <<processes, child, failedName, all_ready, elapsed, probeLog,
                   lastAttempt, termLog, foreign5000, interrupted, outcome,
                   exitCode, chatLog>>

(* print "Failed to start ... Aborting."; return *)
LaunchAbort ==
    /\ pc = "launch_rollback"
    /\ i > Len(processes)
    /\ pc' = "done"
    /\ outcome' = "launch_failed"
    /\ exitCode' = 0
    /\ UNCHANGED <<i, processes, child, failedName, all_ready, elapsed, probeLog,
                   lastAttempt, termLog, foreign5000, interrupted, chatLog>>

----------------------------------------------------------------------------
(* check_service(url, name, timeout=30), called by main for entry i.        *)

(* AfterHealthy with the loop of lines 69-72 left after its first entry.    *)
AfterHealthy_StopsEarly ==
    pc' = "report" /\ i' = i /\ elapsed' = elapsed

(* What main does when check_service(i) returns True: the next entry, or    *)
(* the end of the loop of lines 69-72.                                      *)
AfterHealthy ==
    IF i = N
    THEN pc' = "report" /\ i' = i /\ elapsed' = elapsed
    ELSE pc' = "check" /\ i' = i + 1 /\ elapsed' = 0

(* The loop test of line 28. *)
WithinTimeout == elapsed < Timeout

(* An attempt that observes status 200: return True (lines 30-33).          *)
AttemptOk ==
    /\ pc = "check"
    /\ WithinTimeout
    /\ "ok200" \in HttpGet(i)
    /\ \E d \in Durations("ok200") :
         probeLog' = Append(probeLog, [svc |-> i, ok |-> TRUE, at |-> elapsed + d])
    /\ lastAttempt' = [svc |-> i, outcome |-> "ok200",
                       up |-> child[i].state = "running",
                       alive |-> child[i].state # "exited", slept |-> 0]
    /\ AfterHealthy
    /\ UNCHANGED <<processes, child, failedName, all_ready, termLog, foreign5000,
                   interrupted, outcome, exitCode, chatLog>>

(* A response with another status: no exception, no sleep, back to the      *)
(* loop test (line 31 false, line 28 next).                                 *)
AttemptNon200 ==
    /\ pc = "check"
    /\ WithinTimeout
    /\ "non200" \in HttpGet(i)
    /\ \E d \in Durations("non200") : elapsed' = elapsed + d
    /\ lastAttempt' = [svc |-> i, outcome |-> "non200",
                       up |-> child[i].state = "running",
                       alive |-> child[i].state # "exited", slept |-> 0]
    /\ UNCHANGED <<pc, i, processes, child, failedName, all_ready, probeLog,
                   termLog, foreign5000, interrupted, outcome, exitCode,
                   chatLog>>

(* requests.get raised (connection refused, or the 5 s timeout): both       *)
(* except branches sleep 2 s (lines 34-38).                                 *)
AttemptError ==
    /\ pc = "check"
    /\ WithinTimeout
    /\ \E o \in HttpGet(i) \cap {"refused", "timeout"} :
         /\ \E d \in Durations(o) : elapsed' = elapsed + d + SleepInterval
         /\ lastAttempt' = [svc |-> i, outcome |-> o,
                            up |-> child[i].state = "running",
                            alive |-> child[i].state # "exited",
                            slept |-> SleepInterval]
    /\ UNCHANGED <<pc, i, processes, child, failedName, all_ready, probeLog,
                   termLog, foreign5000, interrupted, outcome, exitCode,
                   chatLog>>

(* CheckTimeout with line 71 left out: all_ready stays True.                *)
CheckTimeout_KeepsReady ==
    /\ pc = "check"
    /\ ~WithinTimeout
    /\ probeLog' = Append(probeLog, [svc |-> i, ok |-> FALSE, at |-> elapsed])
    /\ pc' = "report"
    /\ UNCHANGED <<i, processes, child, failedName, all_ready, elapsed, lastAttempt,
                   termLog, foreign5000, interrupted, outcome, exitCode,
                   chatLog>>

(* The loop test fails: return False; main sets all_ready = False and       *)
(* breaks (lines 40-41, 70-72).                                             *)
CheckTimeout ==
    /\ pc = "check"
    /\ ~WithinTimeout
    /\ probeLog' = Append(probeLog, [svc |-> i, ok |-> FALSE, at |-> elapsed])
    /\ all_ready' = FALSE
    /\ pc' = "report"
    /\ UNCHANGED <<i, processes, child, failedName, elapsed, lastAttempt, termLog,
                   foreign5000, interrupted, outcome, exitCode, chatLog>>

----------------------------------------------------------------------------
(* Lines 74-94 of main *)

(* all_ready: the success banner, then the idle loop of lines 82-84.        *)
ReportReady ==
    /\ pc = "report"
    /\ all_ready
    /\ pc' = "idle"
    /\ UNCHANGED <<i, processes, child, failedName, all_ready, elapsed, probeLog,
                   lastAttempt, termLog, foreign5000, interrupted, outcome, exitCode,
                   chatLog>>

(* not all_ready: the failure banner, then the loop of lines 93-94.         *)
ReportFailed ==
    /\ pc = "report"
    /\ ~all_ready
    /\ pc' = "health_rollback"
    /\ i' = 1
    /\ UNCHANGED <<processes, child, failedName, all_ready, elapsed, probeLog,
                   lastAttempt, termLog, foreign5000, interrupted, outcome, exitCode,
                   chatLog>>

HealthRollbackStep == TerminateStep("health_rollback")

(* main falls off its end after the loop of lines 93-94.                    *)
HealthRollbackDone ==
    /\ pc = "health_rollback"
    /\ i > Len(processes)
    /\ pc' = "done"
    /\ outcome' = "health_failed"
    /\ exitCode' = 0
    /\ UNCHANGED <<i, processes, child, failedName, all_ready, elapsed, probeLog,
                   lastAttempt, termLog, foreign5000, interrupted, chatLog>>

(* Handles with the try/except of lines 82-85 left out.                     *)
Handles_Nowhere(at) == FALSE

(* Where a KeyboardInterrupt is handled: only inside the try of lines 82-84 *)
Handles(at) == at = "idle"

(* Ctrl+C: KeyboardInterrupt is raised in main wherever it is.  It is not   *)
(* an Exception, so the handlers of start_service and check_service do not  *)
(* catch it; only the except of line 85 does.  Anywhere else it leaves      *)
(* main at once and the interpreter exits.                                  *)
Interrupt ==
    /\ pc \notin {"done", "crashed"}
    /\ interrupted' = TRUE
    /\ IF Handles(pc)
       THEN pc' = "shutdown" /\ i' = 1 /\ outcome' = outcome /\ exitCode' = exitCode
       ELSE pc' = "crashed" /\ i' = i /\ outcome' = "interrupt"
            /\ exitCode' = SigIntExit
    /\ UNCHANGED <<processes, child, failedName, all_ready, elapsed, probeLog,
                   lastAttempt, termLog, foreign5000, chatLog>>

ShutdownStep == TerminateStep("shutdown")

(* print "Services stopped."; main returns.                                 *)
ShutdownDone ==
    /\ pc = "shutdown"
    /\ i > Len(processes)
    /\ pc' = "done"
    /\ outcome' = "stopped"
    /\ exitCode' = 0
    /\ UNCHANGED <<i, processes, child, failedName, all_ready, elapsed, probeLog,
                   lastAttempt, termLog, foreign5000, interrupted, chatLog>>

----------------------------------------------------------------------------
(* The children *)

(* A child that received SIGTERM and does not ignore it exits.              *)
ChildExitsOnTerm ==
    \E s \in Svc :
        /\ child[s].state \in {"running", "blocked"}
        /\ child[s].termSent
        /\ ~child[s].ignoresTerm
        /\ child' = [child EXCEPT ![s].state = "exited"]
        /\ UNCHANGED <<pc, i, processes, failedName, all_ready, elapsed, probeLog,
                       lastAttempt, termLog, foreign5000, interrupted, outcome,
                       exitCode, chatLog>>

(* A child exits on its own (crash, port in use, ...), never asked to.      *)
ChildExitsOnItsOwn ==
    \E s \in Svc :
        /\ child[s].state = "running"
        /\ ~child[s].termSent
        /\ child' = [child EXCEPT ![s].state = "exited"]
        /\ UNCHANGED <<pc, i, processes, failedName, all_ready, elapsed, probeLog,
                       lastAttempt, termLog, foreign5000, interrupted, outcome,
                       exitCode, chatLog>>

(* Popen was given stdout=PIPE and stderr=PIPE and nothing in the          *)
(* supervisor ever reads either pipe: a child that has written as much as   *)
(* the pipe buffers hold stops in its next write, for good.                 *)
ChildBlocksOnPipe ==
    \E s \in Svc :
        /\ child[s].state = "running"
        /\ child' = [child EXCEPT ![s].state = "blocked"]
        /\ UNCHANGED <<pc, i, processes, failedName, all_ready, elapsed, probeLog,
                       lastAttempt, termLog, foreign5000, interrupted, outcome,
                       exitCode, chatLog>>

----------------------------------------------------------------------------
Next ==
    \/ LaunchOk
    \/ LaunchFail
    \/ LaunchRollbackStep
    \/ LaunchAbort
    \/ AttemptOk
    \/ AttemptNon200
    \/ AttemptError
    \/ CheckTimeout
    \/ ReportReady
    \/ ReportFailed
    \/ HealthRollbackStep
    \/ HealthRollbackDone
    \/ Interrupt
    \/ ShutdownStep
    \/ ShutdownDone
    \/ ChildExitsOnTerm
    \/ ChildExitsOnItsOwn
    \/ ChildBlocksOnPipe

Spec == Init /\ [][Next]_vars

TypeOK ==
    /\ pc \in PCs
    /\ i \in 1..(N + 1)
    /\ Range(processes) \subseteq Svc
    /\ \A s \in Svc : child[s].state \in {"none", "running", "blocked", "exited"}
    /\ failedName \in 0..N
    /\ all_ready \in BOOLEAN
    /\ elapsed \in 0..(Timeout + PerAttemptTimeout + SleepInterval)
    /\ outcome \in Outcomes
    /\ exitCode \in {-1, 0, SigIntExit}

----------------------------------------------------------------------------
(* The gateway's endpoint: chat() of app.py *)

MaxRequests == 2

Prompts == {"absent", "", "hello"}

(* A POST /chat request: no JSON body at all, the JSON value null, or a     *)
(* JSON object whose "prompt" is absent, empty or a text.                   *)
ChatRequests ==
    {[body |-> "none", prompt |-> "absent"], [body |-> "null", prompt |-> "absent"]}
        \cup {[body |-> "object", prompt |-> q] : q \in Prompts}

(* What request.json does with a body that is not JSON depends on the       *)
(* Flask release, which the repository does not pin: it aborts with 415,    *)
(* aborts with 400, or returns None.                                        *)
FlaskOnNoJson == {"abort415", "abort400", "none"}

(* The outcome of client.chat.completions.create(...)                       *)
Upstream == {"ok", "raise"}

(* chat(): the response to request r.  kind is "response" for               *)
(* {"response": ...}, "error" for {"error": ...} and "html" for the         *)
(* framework's own error page (an exception left the handler).              *)
chat(r, flask, up) ==
    IF r.body = "none" /\ flask = "abort415" THEN [status |-> 415, kind |-> "html"]
    ELSE IF r.body = "none" /\ flask = "abort400" THEN [status |-> 400, kind |-> "html"]
    ELSE IF r.body \in {"none", "null"}
    THEN \* data is None: data.get raises AttributeError outside the try
         [status |-> 500, kind |-> "html"]
    ELSE IF r.prompt \in {"absent", ""}
    THEN [status |-> 400, kind |-> "error"]
    ELSE IF up = "ok"
    THEN [status |-> 200, kind |-> "response"]
    ELSE [status |-> 500, kind |-> "error"]

(* The gateway, launched and running, answers one request.                  *)
ChatRequest ==
    /\ child[Chatbot].state = "running"
    /\ Len(chatLog) < MaxRequests
    /\ \E r \in ChatRequests, flask \in FlaskOnNoJson, up \in Upstream :
         chatLog' = Append(chatLog, [req |-> r, flask |-> flask, upstream |-> up,
                                     resp |-> chat(r, flask, up)])
    /\ UNCHANGED <<pc, i, processes, child, failedName, all_ready, elapsed,
                   probeLog, lastAttempt, termLog, foreign5000, interrupted,
                   outcome, exitCode>>

(* The supervisor has launched the gateway and is about to launch the       *)
(* backend.                                                                 *)
InitChat ==
    /\ pc = "launch"
    /\ i = Backend
    /\ processes = << Chatbot >>
    /\ child = [s \in Svc |->
                  IF s = Chatbot
                  THEN [state |-> "running", ignoresTerm |-> FALSE, termSent |-> FALSE]
                  ELSE NoChild]
    /\ failedName = 0
    /\ all_ready = TRUE
    /\ elapsed = 0
    /\ probeLog = << >>
    /\ lastAttempt = [svc |-> 0, outcome |-> "none", up |-> FALSE, alive |-> FALSE,
                      slept |-> 0]
    /\ termLog = << >>
    /\ foreign5000 \in BOOLEAN
    /\ interrupted = FALSE
    /\ outcome = "running"
    /\ exitCode = -1
    /\ chatLog = << >>

NextChat == ChatRequest

SpecChat == InitChat /\ [][NextChat]_vars

----------------------------------------------------------------------------
(* Properties *)

Launched == Range(processes)
Terminated == Range(termLog)
Finished == pc \in {"done", "crashed"}
SomeProbeFailed == \E k \in 1..Len(probeLog) : ~probeLog[k].ok
AllProbesOk ==
    /\ Len(probeLog) = N
    /\ \A k \in 1..N : probeLog[k].svc = k /\ probeLog[k].ok

(* C1: in every teardown the terminate requests go out in the reverse of    *)
(* the start order: of two terminated services, the one terminated first    *)
(* was started last.                                                        *)
C1_TeardownInReverseOrder ==
    \A a, b \in 1..Len(termLog) :
        a < b => IndexOf(processes, termLog[a]) > IndexOf(processes, termLog[b])

(* C2: when the supervisor has exited after an interrupt, whatever it was   *)
(* doing when the interrupt came, every service it had launched has been    *)
(* sent a terminate request.                                                *)
C2_InterruptTerminatesLaunched ==
    (interrupted /\ Finished) => Launched \subseteq Terminated

(* C3: once the k-th launch has failed, the launched services are exactly   *)
(* the k-1 before it, nothing from position k on is ever started, no probe  *)
(* is ever issued, only those k-1 are terminated, and when the failure is   *)
(* reported it names k and all k-1 have been sent their terminate request.  *)
C3_LaunchFailureRollsBack ==
    /\ failedName # 0 =>
          /\ processes = [k \in 1..(failedName - 1) |-> k]
          /\ \A s \in failedName..N : child[s].state = "none"
          /\ probeLog = << >>
          /\ lastAttempt.svc = 0
          /\ Terminated \subseteq 1..(failedName - 1)
          /\ Len(termLog) <= failedName - 1
          /\ pc \in {"launch_rollback", "done", "crashed"}
          /\ outcome \in {"running", "launch_failed", "interrupt"}
    /\ outcome = "launch_failed" =>
          /\ failedName # 0
          /\ Terminated = 1..(failedName - 1)
          /\ Len(termLog) = failedName - 1

C3_Witness ==
    /\ outcome = "launch_failed"
    /\ failedName = 2
    /\ termLog = << Chatbot >>
    /\ child[Backend].state = "none"

(* C4: once a health probe has timed out the run never reaches or reports   *)
(* Ready, and when the failure path has run to its end every launched       *)
(* process, the ones probed healthy included, has been sent a terminate     *)
(* request.                                                                 *)
C4_HealthFailureIsAllOrNothing ==
    /\ SomeProbeFailed =>
          /\ ~all_ready
          /\ pc \in {"report", "health_rollback", "done", "crashed"}
          /\ outcome \in {"running", "health_failed", "interrupt"}
          /\ ~probeLog[Len(probeLog)].ok
    /\ pc = "health_rollback" => SomeProbeFailed
    /\ outcome = "health_failed" =>
          /\ SomeProbeFailed
          /\ Launched = Svc
          /\ Terminated = Launched
          /\ \A k \in 1..Len(probeLog) : probeLog[k].svc \in Terminated

C4_Witness ==
    /\ outcome = "health_failed"
    /\ Len(probeLog) = 2
    /\ probeLog[1].ok
    /\ ~probeLog[2].ok
    /\ probeLog[2].at >= Timeout
    /\ Terminated = {Chatbot, Backend}

(* C5: the supervisor is Ready only with all N services launched, each      *)
(* probed exactly once, successfully and in registry order; once all N      *)
(* probes have succeeded the run does not take a failure path; and no       *)
(* terminate request is issued during startup.                              *)
C5_AllSucceedMeansReady ==
    /\ pc = "idle" =>
          /\ processes = [k \in 1..N |-> k]
          /\ AllProbesOk
          /\ \A s \in Svc : child[s].state # "none"
    /\ AllProbesOk =>
          /\ all_ready
          /\ pc \in {"report", "idle", "shutdown", "done", "crashed"}
          /\ outcome \in {"running", "stopped", "interrupt"}
    /\ pc \in {"launch", "check", "report", "idle"} => termLog = << >>
    /\ \A k \in 1..Len(probeLog) : probeLog[k].svc = k

C5_Witness ==
    /\ pc = "idle"
    /\ AllProbesOk
    /\ Launched = Svc
    /\ termLog = << >>
    /\ \A s \in Svc : child[s].state = "running"

(* C6: when the supervisor finishes after reporting a startup failure,      *)
(* every child it launched has exited.                                      *)
C6_NoChildRunsAfterFailure ==
    (pc = "done" /\ outcome \in {"launch_failed", "health_failed"}) =>
        \A s \in Launched : child[s].state = "exited"

(* C7: when the supervisor reports "Services stopped." after an interrupt   *)
(* in the idle wait, every child has exited, one that ignores the graceful  *)
(* terminate included (it would have been force-killed).                    *)
C7_ShutdownLeavesNoChild ==
    (pc = "done" /\ outcome = "stopped") =>
        \A s \in Svc : child[s].state = "exited"

(* C8: while Ready and idle the supervisor has terminated nothing and has   *)
(* not exited; it leaves the idle wait only by an interrupt, into the       *)
(* shutdown loop; and when shutdown has run to its end every launched       *)
(* service has been sent a terminate request and the exit code is 0.        *)
C8_IdleStep ==
    pc = "idle" =>
        \/ pc' = "idle" /\ termLog' = termLog /\ exitCode' = exitCode
        \/ pc' = "shutdown" /\ interrupted' /\ termLog' = termLog
                            /\ exitCode' = -1

C8_ReadyHoldsUntilInterrupt ==
    /\ [](pc = "idle" => termLog = << >> /\ exitCode = -1 /\ ~interrupted)
    /\ [](pc = "shutdown" => interrupted /\ exitCode = -1)
    /\ [](outcome = "stopped" =>
             /\ interrupted
             /\ Launched = Svc
             /\ Terminated = Svc
             /\ exitCode = 0)
    /\ [][C8_IdleStep]_vars

C8_Witness ==
    /\ outcome = "stopped"
    /\ exitCode = 0
    /\ interrupted
    /\ Terminated = Svc

(* C9: a health probe of the chatbot URL made while the gateway process is  *)
(* up (and nothing else of the machine answers on that port) observes       *)
(* status 200.                                                              *)
C9_GatewayHealthIs200 ==
    (lastAttempt.svc = Chatbot /\ lastAttempt.up /\ ~foreign5000) =>
        lastAttempt.outcome = "ok200"

(* C10: check_service returns true only for a 200 observed before the       *)
(* timeout has elapsed, and returns false only when it has elapsed.         *)
C10_VerdictRespectsTimeout ==
    \A k \in 1..Len(probeLog) :
        /\ probeLog[k].ok => probeLog[k].at <= Timeout
        /\ ~probeLog[k].ok => probeLog[k].at >= Timeout

(* C11: a check_service call never runs longer than the timeout plus one   *)
(* polling interval: neither while it polls nor when it returns.            *)
C11_ProbeBoundedByTimeoutPlusInterval ==
    /\ pc = "check" => elapsed <= Timeout + SleepInterval
    /\ \A k \in 1..Len(probeLog) : probeLog[k].at <= Timeout + SleepInterval

C13_DeadProcessNeverHealthy ==
    (lastAttempt.svc # 0 /\ lastAttempt.outcome = "ok200") => lastAttempt.alive

(* C15: every attempt of check_service that does not observe status 200 is  *)
(* followed by a sleep of one polling interval, and a probe returns false   *)
(* only once the timeout has elapsed.                                       *)
C15_EveryFailedAttemptWaits ==
    /\ lastAttempt.outcome \in {"non200", "refused", "timeout"} =>
          lastAttempt.slept = SleepInterval
    /\ \A k \in 1..Len(probeLog) : ~probeLog[k].ok => probeLog[k].at >= Timeout

(* The active set: launched and not yet sent a terminate request.           *)
Active == Launched \ Terminated

(* C16: while the supervisor runs, every service of the active set has a    *)
(* live OS process.                                                         *)
C16_ActiveMeansAlive ==
    ~Finished => \A s \in Active : child[s].state \in {"running", "blocked"}

(* C17: launches happen one at a time in registry order; a probe is issued  *)
(* only when every registry entry has been launched; the probes return in   *)
(* registry order, each one begun only after all earlier ones returned      *)
(* success; after the first failed probe no further probe is issued.        *)
C17_ProbeStep ==
    SomeProbeFailed => lastAttempt' = lastAttempt /\ probeLog' = probeLog

C17_StrictlyPhased ==
    /\ [](processes = [k \in 1..Len(processes) |-> k])
    /\ [](pc = "launch" => i = Len(processes) + 1 /\ lastAttempt.svc = 0)
    /\ []((lastAttempt.svc # 0 \/ probeLog # << >> \/ pc = "check") =>
              Len(processes) = N)
    /\ [](\A k \in 1..Len(probeLog) :
              /\ probeLog[k].svc = k
              /\ k < Len(probeLog) => probeLog[k].ok)
    /\ [](lastAttempt.svc # 0 =>
              /\ lastAttempt.svc \in {Len(probeLog), Len(probeLog) + 1}
              /\ \A k \in 1..(lastAttempt.svc - 1) : probeLog[k].ok)
    /\ [](pc = "check" => i = Len(probeLog) + 1 /\ ~SomeProbeFailed)
    /\ [][C17_ProbeStep]_vars

C17_Witness ==
    /\ pc = "check"
    /\ i = Backend
    /\ lastAttempt.svc = Backend
    /\ lastAttempt.outcome = "non200"
    /\ Len(probeLog) = 1
    /\ probeLog[1].ok

(* C18: once the first terminate request has been issued nothing is         *)
(* launched or launched again, no service is probed healthy, the active     *)
(* set only shrinks, and no registry entry is ever launched twice.          *)
C18_TeardownStep ==
    termLog # << >> =>
        /\ processes' = processes
        /\ probeLog' = probeLog
        /\ lastAttempt' = lastAttempt
        /\ \A s \in Svc :
              child[s].state \in {"none", "exited"} => child'[s].state = child[s].state
        /\ Active' \subseteq Active
        /\ pc' \in {"launch_rollback", "health_rollback", "shutdown", "done",
                    "crashed"}

C18_TeardownOnlyShrinks ==
    /\ [](Cardinality(Launched) = Len(processes))
    /\ [](termLog # << >> =>
              pc \in {"launch_rollback", "health_rollback", "shutdown", "done",
                      "crashed"})
    /\ [][C18_TeardownStep]_vars

C18_Witness ==
    /\ pc \in {"launch_rollback", "health_rollback", "shutdown"}
    /\ Len(processes) = N
    /\ Len(termLog) = 1
    /\ Cardinality(Active) = 1

(* C19: no launched child is ever stuck writing to an output pipe that      *)
(* nothing reads.                                                           *)
C19_NoChildBlockedOnPipe ==
    \A s \in Svc : child[s].state # "blocked"

(* C14: every answer of POST /chat is either {"error": ...} with status     *)
(* 500 or {"response": ...}, whatever the request.                          *)
C14_ChatAnswersErrorWith500 ==
    \A k \in 1..Len(chatLog) :
        \/ chatLog[k].resp.kind = "error" /\ chatLog[k].resp.status = 500
        \/ chatLog[k].resp.kind = "response" /\ chatLog[k].resp.status = 200

====
